---- MODULE Spec2Model ----
(***************************************************************************)
(* The RFC 9567 error reporting agent of domain-tools (src/bin/erma).      *)
(*                                                                         *)
(* A label is the sequence of its bytes (ASCII codes), a name the sequence *)
(* of its labels as iter_labels yields them: the labels on the wire from   *)
(* left to right, the root label (the empty label) last.  A request is the *)
(* question section of the message; nothing else of the message is read.   *)
(*                                                                         *)
(* What the code takes from the domain crate and from core is modelled by  *)
(* what it does there: label_count counts the root label, a Label equals a *)
(* str when their bytes agree with ASCII case ignored, to_string escapes   *)
(* as Label's Display does, and u16::from_str reads an optional + sign and *)
(* decimal digits and refuses a value above 65535.                         *)
(***************************************************************************)
EXTENDS Integers, Sequences, FiniteSets, TLC

VARIABLES
    pc,        \* per transport driver: where its Service::call is
    request,   \* per driver: the request it is handling
    parsed,    \* per driver: what parse_qname returned, NotCalled if not invoked
    response,  \* per driver: the builder process_request holds in `response`
    reports,   \* the invocations of the callback, in the order they happened
    sent,      \* the transactions returned to the transports, in order
    served     \* the number of requests handed to the service so far

vars == <<pc, request, parsed, response, reports, sent, served>>

----------------------------------------------------------------------------
(* Bounds of the model *)

\* the most labels before the root label of a question name
MaxLabels == 6
\* the most requests the transports hand to the service in one behaviour
MaxRequests == 3
\* the most labels of the agent domains tried in place of the one of a name
MaxTail == 1

----------------------------------------------------------------------------
(* Labels and names *)

\* "_er"
Er == <<95, 101, 114>>
\* "_Er": the same label in another letter case
ErUpper == <<95, 69, 114>>
\* "1"
One == <<49>>
\* "65535", the largest u16
Max16 == <<54, 53, 53, 51, 53>>
\* "65536", one above the largest u16
Over16 == <<54, 53, 53, 51, 54>>
\* "+1"
PlusOne == <<43, 49>>
\* "com"
Com == <<99, 111, 109>>
\* the root label, which ends every name
Root == <<>>

Labels == {Er, ErUpper, One, Max16, Over16, PlusOne, Com}

RECURSIVE SeqsUpTo(_, _)
SeqsUpTo(S, n) ==
    IF n = 0 THEN {<<>>}
    ELSE LET shorter == SeqsUpTo(S, n - 1)
         IN  shorter \cup {Append(s, x) : s \in {t \in shorter : Len(t) = n - 1}, x \in S}

\* the labels a well-formed report is made of
ReportLabels == {Er, One, Max16, Com}

\* the first labels of the names: the marker and a label that is not the marker
FirstLabels == {Er, Com}

\* the names after their first label: every sequence of fewer than
\* MaxLabels - 1 labels, and those of MaxLabels - 1 labels of a report
Rests ==
    SeqsUpTo(Labels, MaxLabels - 2) \cup
    {rest \in SeqsUpTo(ReportLabels, MaxLabels - 1) : Len(rest) = MaxLabels - 1}

\* the question names: the root, and a first label, a rest and the root label
QNames ==
    {<<Root>>} \cup
    {<<first>> \o rest \o <<Root>> : first \in FirstLabels, rest \in Rests}

U16Max == 65535
TXT == 16
A == 1
QTypes == {TXT, A}

\* u8::to_ascii_lowercase
ToLower(b) == IF b >= 65 /\ b <= 90 THEN b + 32 ELSE b

\* Label == str: the bytes compared ignoring ASCII case
LabelEq(label, text) ==
    /\ Len(label) = Len(text)
    /\ \A i \in 1..Len(label) : ToLower(label[i]) = ToLower(text[i])

\* Label's Display: a space, a dot and a backslash are escaped with a
\* backslash, a byte outside the printable range as \DDD
RECURSIVE to_string(_)
to_string(label) ==
    IF label = <<>> THEN <<>>
    ELSE LET ch == Head(label)
             shown == IF ch \in {32, 46, 92} THEN <<92, ch>>
                      ELSE IF ch < 32 \/ ch >= 127
                           THEN <<92, 48 + (ch \div 100), 48 + ((ch \div 10) % 10), 48 + (ch % 10)>>
                           ELSE <<ch>>
         IN  shown \o to_string(Tail(label))

\* Result and Option values
Ok(v) == [ok |-> TRUE, val |-> v]
Err(msg, cause) == [ok |-> FALSE, err |-> <<msg, cause>>]
None == <<>>
Some(x) == <<x>>

\* from_digits with wrapping arithmetic in place of the overflow check
RECURSIVE from_digits_wrapping(_, _)
from_digits_wrapping(digits, acc) ==
    IF digits = <<>> THEN Ok(acc)
    ELSE LET c == Head(digits)
         IN  IF c < 48 \/ c > 57 THEN Err("ParseIntError", "invalid digit found in string")
             ELSE from_digits_wrapping(Tail(digits), (acc * 10 + (c - 48)) % 65536)

\* the digits of u16::from_str, from the left, each step checked for overflow
RECURSIVE from_digits(_, _)
from_digits(digits, acc) ==
    IF digits = <<>> THEN Ok(acc)
    ELSE LET c == Head(digits)
         IN  IF c < 48 \/ c > 57 THEN Err("ParseIntError", "invalid digit found in string")
             ELSE IF acc * 10 + (c - 48) > U16Max
                  THEN Err("ParseIntError", "number too large to fit in target type")
                  ELSE from_digits(Tail(digits), acc * 10 + (c - 48))

\* u16::from_str: an optional + sign followed by digits only
u16_from_str(src) ==
    IF src = <<>> THEN Err("ParseIntError", "cannot parse integer from empty string")
    ELSE IF Len(src) = 1 /\ src[1] \in {43, 45} THEN Err("ParseIntError", "invalid digit found in string")
    ELSE IF src[1] = 43 THEN from_digits(Tail(src), 0)
    ELSE from_digits(src, 0)

\* the length of a relative name under construction: each label and its length byte
RECURSIVE name_len(_)
name_len(name) == IF name = <<>> THEN 0 ELSE Len(Head(name)) + 1 + name_len(Tail(name))

\* NameBuilder::append_label: refuses a label of more than 63 bytes and a
\* relative name of more than 254
append_label(rep_qname, label) ==
    IF Len(label) > 63 THEN Err("Invalid QNAME label", "long label")
    ELSE IF name_len(rep_qname) + Len(label) + 1 > 254
         THEN Err("Invalid QNAME label", "long domain name")
         ELSE Ok(Append(rep_qname, label))

\* parse_loop that leaves the loop at the terminator before it appends
RECURSIVE parse_loop_drop(_, _, _, _, _)
parse_loop_drop(labels, i, second_last_label, last_label, rep_qname) ==
    IF i > Len(labels) THEN Err("Missing QNAME or _er label.", "")
    ELSE LET label == labels[i]
             appended == IF second_last_label = None THEN Ok(rep_qname)
                         ELSE append_label(rep_qname, second_last_label[1])
         IN  IF LabelEq(label, Er)
             THEN Ok([rep_qname |-> rep_qname, last_label |-> last_label])
             ELSE IF ~appended.ok THEN appended
                  ELSE parse_loop_drop(labels, i + 1, last_label, Some(label), appended.val)

\* parse_loop that ends when the labels run out, as it does at the terminator
RECURSIVE parse_loop_break(_, _, _, _, _)
parse_loop_break(labels, i, second_last_label, last_label, rep_qname) ==
    IF i > Len(labels) THEN Ok([rep_qname |-> rep_qname, last_label |-> last_label])
    ELSE LET label == labels[i]
             appended == IF second_last_label = None THEN Ok(rep_qname)
                         ELSE append_label(rep_qname, second_last_label[1])
         IN  IF ~appended.ok THEN appended
             ELSE IF LabelEq(label, Er)
                  THEN Ok([rep_qname |-> appended.val, last_label |-> last_label])
                  ELSE parse_loop_break(labels, i + 1, last_label, Some(label), appended.val)

\* the loop of parse_qname, about to pull label i of the name
RECURSIVE parse_loop(_, _, _, _, _)
parse_loop(labels, i, second_last_label, last_label, rep_qname) ==
    IF i > Len(labels) THEN Err("Missing QNAME or _er label.", "")
    ELSE LET label == labels[i]
             appended == IF second_last_label = None THEN Ok(rep_qname)
                         ELSE append_label(rep_qname, second_last_label[1])
         IN  IF ~appended.ok THEN appended
             ELSE IF LabelEq(label, Er)
                  THEN Ok([rep_qname |-> appended.val, last_label |-> last_label])
                  ELSE parse_loop(labels, i + 1, last_label, Some(label), appended.val)

\* parse_qname that converts the report-qtype label as soon as it has it
parse_qname_eager(qname) ==
    IF Len(qname) < 1 THEN Err("Missing _er label.", "")
    ELSE IF Len(qname) < 2 THEN Err("Missing QTYPE label.", "")
    ELSE LET rep_qtype == u16_from_str(to_string(qname[2]))
             looped == parse_loop(qname, 3, None, None, <<>>)
         IN  IF ~rep_qtype.ok THEN Err("Invalid QTYPE label", rep_qtype.err[2])
             ELSE IF ~looped.ok THEN looped
             ELSE IF looped.val.last_label = None
                  THEN Err("Missing EDNS error code label.", "")
                  ELSE LET edns_err_code == u16_from_str(to_string(looped.val.last_label[1]))
                       IN  IF ~edns_err_code.ok
                           THEN Err("Invalid EDNS error code label", edns_err_code.err[2])
                           ELSE Ok([rep_qtype |-> rep_qtype.val,
                                    edns_err_code |-> edns_err_code.val,
                                    rep_qname |-> looped.val.rep_qname])

\* parse_qname that insists on "_er" as the first label
parse_qname_marker(qname) ==
    IF Len(qname) < 1 \/ ~LabelEq(qname[1], Er) THEN Err("Missing _er label.", "")
    ELSE IF Len(qname) < 2 THEN Err("Missing QTYPE label.", "")
    ELSE LET looped == parse_loop(qname, 3, None, None, <<>>)
         IN  IF ~looped.ok THEN looped
             ELSE IF looped.val.last_label = None
                  THEN Err("Missing EDNS error code label.", "")
                  ELSE LET rep_qtype == u16_from_str(to_string(qname[2]))
                           edns_err_code == u16_from_str(to_string(looped.val.last_label[1]))
                       IN  IF ~rep_qtype.ok
                           THEN Err("Invalid QTYPE label", rep_qtype.err[2])
                           ELSE IF ~edns_err_code.ok
                                THEN Err("Invalid EDNS error code label", edns_err_code.err[2])
                                ELSE Ok([rep_qtype |-> rep_qtype.val,
                                         edns_err_code |-> edns_err_code.val,
                                         rep_qname |-> looped.val.rep_qname])

\* AgentService::parse_qname
parse_qname(qname) ==
    IF Len(qname) < 1 THEN Err("Missing _er label.", "")
    ELSE IF Len(qname) < 2 THEN Err("Missing QTYPE label.", "")
    ELSE LET looped == parse_loop(qname, 3, None, None, <<>>)
         IN  IF ~looped.ok THEN looped
             ELSE IF looped.val.last_label = None
                  THEN Err("Missing EDNS error code label.", "")
                  ELSE LET rep_qtype == u16_from_str(to_string(qname[2]))
                           edns_err_code == u16_from_str(to_string(looped.val.last_label[1]))
                       IN  IF ~rep_qtype.ok
                           THEN Err("Invalid QTYPE label", rep_qtype.err[2])
                           ELSE IF ~edns_err_code.ok
                                THEN Err("Invalid EDNS error code label", edns_err_code.err[2])
                                ELSE Ok([rep_qtype |-> rep_qtype.val,
                                         edns_err_code |-> edns_err_code.val,
                                         rep_qname |-> looped.val.rep_qname])

\* ParsedName::label_count: every label of the name, the root label too
label_count(qname) == Len(qname)

\* sole_question that settles for the first question of several
sole_question_first(message) ==
    IF Len(message.questions) >= 1 THEN Ok(message.questions[1])
    ELSE Err("FormError", "QDCOUNT != 1")

\* Message::sole_question: the question of a message that has exactly one
sole_question(message) ==
    IF Len(message.questions) = 1 THEN Ok(message.questions[1])
    ELSE Err("FormError", "QDCOUNT != 1")

\* Ttl::from_days(1), in seconds
TtlOneDay == 86400

\* AgentService::mk_success_response
mk_success_response(message, qname) ==
    [rcode |-> "NOERROR",
     answer |-> << [owner |-> qname, class |-> "IN", ttl |-> TtlOneDay,
                    rtype |-> TXT, rdata |-> <<"Report received">>] >>]

\* AgentService::mk_err_response
mk_err_response(message, rcode) == [rcode |-> rcode, answer |-> <<>>]

----------------------------------------------------------------------------
(* Requests *)

Questions == [qname : QNames, qtype : QTypes]

\* "_er.1.com.65535._er.com.": a report of error 65535 for a query com of type 1
ReportName == <<Er, One, Com, Max16, Er, Com, Root>>
\* "_Er.65535.com.1.1._Er.": a report of error 1 for a query com.1 of type 65535
OtherReportName == <<ErUpper, Max16, Com, One, One, ErUpper, Root>>
\* "_er.com.com.1._er.": the reported query type is no number
BadQtypeName == <<Er, Com, Com, One, Er, Root>>
\* "_er.1.": too few labels
ShortName == <<Er, One, Root>>

Message(questions) == [questions |-> questions]

\* messages with no question and with two
OddMessages ==
    {Message(<<>>)} \cup
    {Message(<<[qname |-> ReportName, qtype |-> t], [qname |-> ShortName, qtype |-> u]>>) :
        t \in QTypes, u \in QTypes}

\* every message a single request is drawn from
Messages == {Message(<<q>>) : q \in Questions} \cup OddMessages

\* the messages concurrent requests are drawn from
FewMessages ==
    {Message(<<[qname |-> n, qtype |-> TXT]>>) :
        n \in {ReportName, OtherReportName, BadQtypeName, ShortName}}
    \cup {Message(<<[qname |-> ReportName, qtype |-> A]>>), Message(<<>>)}

----------------------------------------------------------------------------
(* The service behind the two transports *)

\* the UDP and the TCP server of main, which share one AgentService
Drivers == {"udp", "tcp"}

NotCalled == [ok |-> FALSE, err |-> <<"not called", "">>]
NoMessage == Message(<<>>)
NoResponse == [rcode |-> "none", answer |-> <<>>]

Init ==
    /\ pc = [d \in Drivers |-> "idle"]
    /\ request = [d \in Drivers |-> [seq |-> 0, message |-> NoMessage]]
    /\ parsed = [d \in Drivers |-> NotCalled]
    /\ response = [d \in Drivers |-> NoResponse]
    /\ reports = <<>>
    /\ sent = <<>>
    /\ served = 0

\* a transport hands a message to Service::call
Receive(d, message) ==
    /\ pc[d] = "idle"
    /\ served < MaxRequests
    /\ served' = served + 1
    /\ request' = [request EXCEPT ![d] = [seq |-> served + 1, message |-> message]]
    /\ pc' = [pc EXCEPT ![d] = "process_request"]
    /\ UNCHANGED <<parsed, response, reports, sent>>

\* the checks of process_request with 5 labels as the least
Accepts_five(message) ==
    /\ sole_question(message).ok
    /\ sole_question(message).val.qtype = TXT
    /\ label_count(sole_question(message).val.qname) >= 5

\* the checks of process_request without the one of the query type
Accepts_any_type(message) ==
    /\ sole_question(message).ok
    /\ label_count(sole_question(message).val.qname) >= 6

\* process_request up to the match on parse_qname: the checks of the
\* question count, the query type and the label count, then the parse
Accepts(message) ==
    /\ sole_question(message).ok
    /\ sole_question(message).val.qtype = TXT
    /\ label_count(sole_question(message).val.qname) >= 6

Examine(d) ==
    /\ pc[d] = "process_request"
    /\ IF Accepts(request[d].message)
       THEN LET result == parse_qname(sole_question(request[d].message).val.qname)
            IN  /\ parsed' = [parsed EXCEPT ![d] = result]
                /\ pc' = [pc EXCEPT ![d] = IF result.ok THEN "callback" ELSE "mk_err"]
       ELSE /\ parsed' = [parsed EXCEPT ![d] = NotCalled]
            /\ pc' = [pc EXCEPT ![d] = "mk_err"]
    /\ UNCHANGED <<request, response, reports, sent, served>>

\* a callback that is handed the report of whichever call parsed one last,
\* as it would be were the parse result kept in the service
Callback_shared(d) ==
    /\ pc[d] = "callback"
    /\ \E e \in Drivers :
        /\ parsed[e].ok
        /\ reports' = Append(reports, [seq |-> request[d].seq,
                                       qtype |-> parsed[e].val.rep_qtype,
                                       edns_err_code |-> parsed[e].val.edns_err_code,
                                       qname |-> parsed[e].val.rep_qname])
    /\ pc' = [pc EXCEPT ![d] = "mk_success"]
    /\ UNCHANGED <<request, parsed, response, sent, served>>

\* (self.callback)(rep_qtype, edns_err_code, rep_qname)
Callback(d) ==
    /\ pc[d] = "callback"
    /\ reports' = Append(reports, [seq |-> request[d].seq,
                                   qtype |-> parsed[d].val.rep_qtype,
                                   edns_err_code |-> parsed[d].val.edns_err_code,
                                   qname |-> parsed[d].val.rep_qname])
    /\ pc' = [pc EXCEPT ![d] = "mk_success"]
    /\ UNCHANGED <<request, parsed, response, sent, served>>

\* response = Some(self.mk_success_response(request, qname))
MkSuccess(d) ==
    /\ pc[d] = "mk_success"
    /\ response' = [response EXCEPT ![d] =
            mk_success_response(request[d].message,
                                sole_question(request[d].message).val.qname)]
    /\ pc' = [pc EXCEPT ![d] = "return"]
    /\ UNCHANGED <<request, parsed, reports, sent, served>>

\* response.is_none(): response = Some(self.mk_err_response(request, FORMERR))
MkErr(d) ==
    /\ pc[d] = "mk_err"
    /\ response' = [response EXCEPT ![d] = mk_err_response(request[d].message, "FORMERR")]
    /\ pc' = [pc EXCEPT ![d] = "return"]
    /\ UNCHANGED <<request, parsed, reports, sent, served>>

\* process_request returns its builder and call returns Ok(Transaction::single(..))
Return(d) ==
    /\ pc[d] = "return"
    /\ sent' = Append(sent, [seq |-> request[d].seq,
                             message |-> request[d].message,
                             result |-> Ok(<<Ok(response[d])>>)])
    /\ pc' = [pc EXCEPT ![d] = "idle"]
    /\ request' = [request EXCEPT ![d] = [seq |-> 0, message |-> NoMessage]]
    /\ parsed' = [parsed EXCEPT ![d] = NotCalled]
    /\ response' = [response EXCEPT ![d] = NoResponse]
    /\ UNCHANGED <<reports, served>>

\* one request, any message, through one transport from arrival to response
Next ==
    \/ served = 0 /\ \E message \in Messages : Receive("udp", message)
    \/ Examine("udp")
    \/ Callback("udp")
    \/ MkSuccess("udp")
    \/ MkErr("udp")
    \/ Return("udp")

Spec == Init /\ [][Next]_vars

\* the two transports, each handling one request after the other, side by side
NextConcurrent ==
    \E d \in Drivers :
        \/ \E message \in FewMessages : Receive(d, message)
        \/ Examine(d)
        \/ Callback(d)
        \/ MkSuccess(d)
        \/ MkErr(d)
        \/ Return(d)

SpecConcurrent == Init /\ [][NextConcurrent]_vars

----------------------------------------------------------------------------
(* Vocabulary of the properties, written without the operators above *)

\* decimal text: one or more ASCII digits
IsDigits(text) == Len(text) > 0 /\ \A i \in 1..Len(text) : text[i] \in 48..57

\* the number a decimal text denotes
RECURSIVE DecimalValue(_)
DecimalValue(text) ==
    IF text = <<>> THEN 0
    ELSE DecimalValue(SubSeq(text, 1, Len(text) - 1)) * 10 + (text[Len(text)] - 48)

\* decimal text of a value in 0..65535
IsDecimalU16(text) == IsDigits(text) /\ DecimalValue(text) <= 65535

\* decimal text of a value in 0..65535, or such a text after one + sign
IsSignedDecimalU16(text) ==
    \/ IsDecimalU16(text)
    \/ Len(text) > 1 /\ text[1] = 43 /\ IsDecimalU16(Tail(text))

\* the label is "_er" in any letter case
IsTerminator(label) ==
    Len(label) = 3 /\ label[1] = 95 /\ label[2] \in {101, 69} /\ label[3] \in {114, 82}

\* the place of the first terminator after the first two labels, 0 without one
TerminatorAt(qname) ==
    LET found == {i \in 3..Len(qname) : IsTerminator(qname[i])}
    IN  IF found = {} THEN 0 ELSE CHOOSE i \in found : \A j \in found : i <= j

\* the message has one question / the name of its question / its query type
Single(message) == Len(message.questions) = 1
NameOf(message) == message.questions[1].qname
TypeOf(message) == message.questions[1].qtype

\* parse_qname has just returned to the call of driver d
ParseReturned(d) == pc[d] \in {"callback", "mk_err"} /\ parsed[d] # NotCalled

\* process_request of driver d is past its checks
Examined(d) == pc[d] \in {"callback", "mk_success", "mk_err", "return"}

\* the invocations of the callback made for request number seq
ReportsOf(seq) == {i \in DOMAIN reports : reports[i].seq = seq}

FormErr == [rcode |-> "FORMERR", answer |-> <<>>]

\* driver d rejects its request: no parse result, no callback, FORMERR
Rejects(d) ==
    /\ ~parsed[d].ok
    /\ pc[d] \in {"mk_err", "return"}
    /\ ReportsOf(request[d].seq) = {}
    /\ pc[d] = "return" => response[d] = FormErr

\* the same for a request that was answered
Rejected(i) ==
    /\ sent[i].result = Ok(<<Ok(FormErr)>>)
    /\ ReportsOf(sent[i].seq) = {}

\* the answer of an accepted report: one TXT record at the question name
Success(qname) ==
    [rcode |-> "NOERROR",
     answer |-> << [owner |-> qname, class |-> "IN", ttl |-> 86400,
                    rtype |-> 16, rdata |-> <<"Report received">>] >>]

\* a message the responder is to accept, by the rules of process_request
Acceptable(message) ==
    /\ Single(message)
    /\ TypeOf(message) = 16
    /\ Len(NameOf(message)) >= 6
    /\ parse_qname(NameOf(message)).ok

Expected(message) ==
    IF Acceptable(message) THEN Success(NameOf(message)) ELSE FormErr

----------------------------------------------------------------------------
(* C1 *)

\* the name reads "_er", Q, l1 .. lk, E, "_er" up to its label t, with k >= 1
\* when t >= 5, Q and E decimal texts of values in 0..65535
WellFormedAt(qname, t) ==
    /\ qname[1] = Er
    /\ IsDecimalU16(qname[2])
    /\ IsDecimalU16(qname[t - 1])
    /\ qname[t] = Er

ReportAt(qname, t) ==
    Ok([rep_qtype |-> DecimalValue(qname[2]),
        edns_err_code |-> DecimalValue(qname[t - 1]),
        rep_qname |-> SubSeq(qname, 3, t - 2)])

\* C1 as stated: for every name "_er", Q, l1 .. lk, E, "_er", ... with k >= 1,
\* Q and E decimal texts of values in 0..65535 and l1 .. lk arbitrary labels,
\* parse_qname returns (value(Q), value(E), [l1 .. lk]), labels in wire order.
C1_AnyLabels ==
    \A d \in Drivers :
        ParseReturned(d) =>
            LET qname == NameOf(request[d].message)
            IN  \A t \in 5..Len(qname) :
                    WellFormedAt(qname, t) => parsed[d] = ReportAt(qname, t)

\* C1 as amended: the same, for l1 .. lk none of which is "_er" in any letter
\* case; parse_qname then returns (value(Q), value(E), [l1 .. lk]).
C1_Decodes ==
    \A d \in Drivers :
        ParseReturned(d) =>
            LET qname == NameOf(request[d].message)
            IN  \A t \in 5..Len(qname) :
                    /\ WellFormedAt(qname, t)
                    /\ \A i \in 3..(t - 2) : ~IsTerminator(qname[i])
                    => parsed[d] = ReportAt(qname, t)

\* a report for a name of two different labels has been decoded
C1_Witness ==
    \E d \in Drivers :
        /\ ParseReturned(d)
        /\ LET qname == NameOf(request[d].message)
           IN  \E t \in 6..Len(qname) :
                    /\ WellFormedAt(qname, t)
                    /\ \A i \in 3..(t - 2) : ~IsTerminator(qname[i])
                    /\ qname[3] # qname[4]
                    /\ qname[2] # qname[t - 1]
                    /\ parsed[d] = ReportAt(qname, t)

----------------------------------------------------------------------------
(* C2 *)

\* C2: every call returns one response and no error: NOERROR with one TXT
\* record (owner the question name, class IN, TTL 86400, the one string
\* "Report received") if and only if the request has exactly one question, of
\* type TXT, with a name of at least 6 labels that parse_qname accepts; FORMERR
\* with no answer record in every other case.
C2_OneResponse ==
    /\ \A i \in DOMAIN sent :
            sent[i].result = Ok(<<Ok(Expected(sent[i].message))>>)
    /\ \A d \in Drivers :
            pc[d] = "return" => response[d] = Expected(request[d].message)

\* one request has been answered NOERROR
C2_Witness ==
    \E i \in DOMAIN sent :
        /\ Acceptable(sent[i].message)
        /\ sent[i].result = Ok(<<Ok(Success(NameOf(sent[i].message)))>>)

----------------------------------------------------------------------------
(* C3 *)

\* C3: whenever the responder accepts a request, the original_qname handed to
\* the callback has at least one label.
C3_NonEmptyQname ==
    \A j \in DOMAIN reports : Len(reports[j].qname) >= 1

----------------------------------------------------------------------------
(* C4 *)

FewLabels(message) == Single(message) /\ Len(NameOf(message)) < 6

\* C4: a request whose sole question name has fewer than 6 labels is answered
\* FORMERR, and neither parse_qname nor the callback is invoked for it.
C4_FewLabels ==
    /\ \A d \in Drivers :
            Examined(d) /\ FewLabels(request[d].message) =>
                parsed[d] = NotCalled /\ Rejects(d)
    /\ \A i \in DOMAIN sent : FewLabels(sent[i].message) => Rejected(i)

\* a TXT request was refused whose name of 5 labels parse_qname would accept
C4_Witness ==
    \E d \in Drivers :
        /\ pc[d] = "return"
        /\ FewLabels(request[d].message)
        /\ TypeOf(request[d].message) = 16
        /\ Len(NameOf(request[d].message)) = 5
        /\ parse_qname(NameOf(request[d].message)).ok
        /\ response[d] = FormErr

----------------------------------------------------------------------------
(* C5 *)

NotTxt(message) == Single(message) /\ TypeOf(message) # 16

\* C5: a request whose sole question is not of type TXT is answered FORMERR
\* and the callback is not invoked, whatever the question name.
C5_NotTxt ==
    /\ \A d \in Drivers :
            Examined(d) /\ NotTxt(request[d].message) => Rejects(d)
    /\ \A i \in DOMAIN sent : NotTxt(sent[i].message) => Rejected(i)

\* a request of another type was refused whose name is a well-formed report
C5_Witness ==
    \E d \in Drivers :
        /\ pc[d] = "return"
        /\ NotTxt(request[d].message)
        /\ Len(NameOf(request[d].message)) >= 6
        /\ parse_qname(NameOf(request[d].message)).ok
        /\ response[d] = FormErr

----------------------------------------------------------------------------
(* C6 *)

\* the question is TXT, its name has 6 labels or more, and its report-qtype
\* label or (when a terminator follows later) the label before the terminator
\* is not a number as Numeric defines it
BadNumber(message, Numeric(_)) ==
    /\ Single(message)
    /\ TypeOf(message) = 16
    /\ Len(NameOf(message)) >= 6
    /\ LET qname == NameOf(message)
           t == TerminatorAt(qname)
       IN  \/ ~Numeric(qname[2])
           \/ t > 3 /\ ~Numeric(qname[t - 1])

\* C6 as stated: a TXT request of 6 labels or more whose report-qtype label
\* or EDNS-error-code label is not decimal text or denotes a value above
\* 65535 fails to parse, is answered FORMERR and reaches no callback.
C6_NotDecimal ==
    /\ \A d \in Drivers :
            Examined(d) /\ BadNumber(request[d].message, IsDecimalU16) =>
                parsed[d] # NotCalled /\ Rejects(d)
    /\ \A i \in DOMAIN sent :
            BadNumber(sent[i].message, IsDecimalU16) => Rejected(i)

\* C6 as amended: the same for a label that is not decimal text, optionally
\* preceded by one + sign, of a value in 0..65535.
C6_NotNumeric ==
    /\ \A d \in Drivers :
            Examined(d) /\ BadNumber(request[d].message, IsSignedDecimalU16) =>
                parsed[d] # NotCalled /\ Rejects(d)
    /\ \A i \in DOMAIN sent :
            BadNumber(sent[i].message, IsSignedDecimalU16) => Rejected(i)

\* a report whose error code is the digits of 65536 has been refused
C6_Witness ==
    \E d \in Drivers :
        /\ pc[d] = "return"
        /\ Single(request[d].message)
        /\ TypeOf(request[d].message) = 16
        /\ LET qname == NameOf(request[d].message)
               t == TerminatorAt(qname)
           IN  /\ t >= 5
               /\ IsDecimalU16(qname[2])
               /\ IsDigits(qname[t - 1])
               /\ DecimalValue(qname[t - 1]) > 65535
        /\ parsed[d].err[1] = "Invalid EDNS error code label"
        /\ response[d] = FormErr

----------------------------------------------------------------------------
(* C7 *)

MissingTerminator == Err("Missing QNAME or _er label.", "")

\* the message has one question, no label of which after the first two is a
\* terminator as IsEr defines it
NoTerminator(message, IsEr(_)) ==
    /\ Single(message)
    /\ \A i \in 3..Len(NameOf(message)) : ~IsEr(NameOf(message)[i])

IsLiteralEr(label) == label = Er

----------------------------------------------------------------------------
(* C9 *)

\* C9: parse_qname reports the missing terminator first, then the missing
\* error code, then the invalid qtype, then the invalid error code.
C9_Precedence ==
    \A d \in Drivers :
        ParseReturned(d) =>
            LET qname == NameOf(request[d].message)
                t == TerminatorAt(qname)
                failure == IF parsed[d].ok THEN "" ELSE parsed[d].err[1]
            IN  /\ t = 0 => failure = "Missing QNAME or _er label."
                /\ t = 3 => failure = "Missing EDNS error code label."
                /\ t > 3 /\ ~IsSignedDecimalU16(qname[2]) => failure = "Invalid QTYPE label"
                /\ t > 3 /\ IsSignedDecimalU16(qname[2]) /\ ~IsSignedDecimalU16(qname[t - 1])
                        => failure = "Invalid EDNS error code label"

\* the terminator came right after a report-qtype label that is no number
C9_Witness ==
    \E d \in Drivers :
        /\ ParseReturned(d)
        /\ TerminatorAt(NameOf(request[d].message)) = 3
        /\ ~IsSignedDecimalU16(NameOf(request[d].message)[2])
        /\ parsed[d] = Err("Missing EDNS error code label.", "")

----------------------------------------------------------------------------
(* C10 *)

\* the labels the agent domains tried are made of
AgentLabels == {Er, ErUpper, One, Com}

\* names that differ from qname in the first label and in the labels after
\* the terminator at most: any first label, any agent domain of at most
\* MaxTail labels
Variants(qname) ==
    LET t == TerminatorAt(qname)
    IN  IF Len(qname) < 2 THEN {}
        ELSE IF t = 0 THEN {<<first>> \o Tail(qname) : first \in Labels}
        ELSE {<<first>> \o SubSeq(qname, 2, t) \o agent \o <<Root>> :
                first \in Labels, agent \in SeqsUpTo(AgentLabels, MaxTail)}

\* C10: the result of parse_qname, success or error, is the same for two
\* names that differ only in their first label and in the labels after the
\* first terminator that follows the report-qtype label.
C10_Independent ==
    \A d \in Drivers :
        ParseReturned(d) =>
            \A other \in Variants(NameOf(request[d].message)) :
                parse_qname(other) = parsed[d]

\* a report was decoded from a name that starts with another label than
\* "_er" and has labels after its terminator
C10_Witness ==
    \E d \in Drivers :
        /\ ParseReturned(d)
        /\ parsed[d].ok
        /\ NameOf(request[d].message)[1] # Er
        /\ TerminatorAt(NameOf(request[d].message)) < Len(NameOf(request[d].message)) - 1
        /\ \E other \in Variants(NameOf(request[d].message)) :
                other # NameOf(request[d].message) /\ parse_qname(other) = parsed[d]

----------------------------------------------------------------------------
(* C8 *)

\* the report is the one parse_qname decodes from the question name of message
ReportFrom(report, message) ==
    /\ Acceptable(message)
    /\ LET decoded == parse_qname(NameOf(message)).val
       IN  /\ report.qtype = decoded.rep_qtype
           /\ report.edns_err_code = decoded.edns_err_code
           /\ report.qname = decoded.rep_qname

\* C8: however the requests of the two transports interleave, the callback
\* has been invoked once for each request answered NOERROR and never for one
\* answered FORMERR, before the response is built, with the values decoded
\* from the name of that request, and each answer is the one the request
\* alone decides.
C8_Isolated ==
    /\ \A i \in DOMAIN sent :
            LET answer == sent[i].result.val[1].val
            IN  /\ sent[i].result = Ok(<<Ok(Expected(sent[i].message))>>)
                /\ Cardinality(ReportsOf(sent[i].seq)) =
                        IF answer.rcode = "NOERROR" THEN 1 ELSE 0
                /\ \A j \in ReportsOf(sent[i].seq) : ReportFrom(reports[j], sent[i].message)
    /\ \A d \in Drivers :
            /\ response[d] # NoResponse =>
                    /\ response[d] = Expected(request[d].message)
                    /\ Cardinality(ReportsOf(request[d].seq)) =
                            IF response[d].rcode = "NOERROR" THEN 1 ELSE 0
            /\ pc[d] # "idle" =>
                    \A j \in ReportsOf(request[d].seq) :
                        /\ pc[d] \in {"mk_success", "return"}
                        /\ ReportFrom(reports[j], request[d].message)
    /\ \A j \in DOMAIN reports :
            \/ \E i \in DOMAIN sent : sent[i].seq = reports[j].seq
            \/ \E d \in Drivers : pc[d] # "idle" /\ request[d].seq = reports[j].seq

\* two different reports were decoded while both calls were under way, and
\* both requests have been answered NOERROR
C8_Witness ==
    /\ Len(reports) >= 2
    /\ reports[1].qname # reports[2].qname
    /\ \E i, k \in DOMAIN sent :
            /\ sent[i].seq = reports[1].seq
            /\ sent[k].seq = reports[2].seq
            /\ sent[i].seq > sent[k].seq
            /\ sent[i].result.val[1].val.rcode = "NOERROR"
            /\ sent[k].result.val[1].val.rcode = "NOERROR"

====
